---- MODULE Spec2Model ----
(***************************************************************************)
(* A model of the datagram reliability layer of libhttpc                   *)
(* (pkg/libhttpc/client.go): the packet codec (ParsePacket, makePacket,    *)
(* getBytesFromPacket), the segmenter (getDataPacketBytes), the handshake, *)
(* and the receive loops of UDPGet and UDPPost with their retransmission   *)
(* goroutines.                                                             *)
(*                                                                         *)
(* Byte strings ([]byte and string) are sequences of numbers in 0..255.    *)
(* A host string is a sequence of one-character strings.  A Go run-time    *)
(* panic (index or slice bounds out of range) is the value Panic.          *)
(***************************************************************************)
EXTENDS Integers, Sequences, FiniteSets, TLC

VARIABLES
    pc,        \* position of the modelled call
    op,        \* which function / request call this behaviour exercises
    in,        \* the inputs of the call
    out,       \* the result of the call (None until it returns)
    wrote,     \* the datagrams written to the socket by the last step, in order
    hs,        \* handshake: every datagram written so far, the last read buffer
    loop,      \* the receive loop's locals
    task       \* the retransmission goroutine, the channel and the shared err

vars == <<pc, op, in, out, wrote, hs, loop, task>>

None == [ok |-> FALSE, kind |-> "none"]
Panic == [ok |-> FALSE, kind |-> "panic"]

(***************************************************************************)
(* Bytes and integers                                                      *)
(***************************************************************************)
Byte(n) == n % 256

Uint16(n) == n % 65536

\* A uint32 is the pair of its 16-bit halves.
U32(n) == [hi |-> (n \div 65536) % 65536, lo |-> n % 65536]

\* v + k in uint32 arithmetic (v++, v + 1), for 0 <= k < 65536
U32Add(v, k) ==
    [hi |-> (v.hi + (v.lo + k) \div 65536) % 65536, lo |-> (v.lo + k) % 65536]

U32Less(a, b) == a.hi < b.hi \/ (a.hi = b.hi /\ a.lo < b.lo)

\* int(v) < n for a slice length n < 65536: v indexes a slice of that length
U32Below(v, n) == v.hi = 0 /\ v.lo < n

\* binary.BigEndian.PutUint32
PutUint32(v) == << v.hi \div 256, v.hi % 256, v.lo \div 256, v.lo % 256 >>

\* binary.BigEndian.PutUint16
PutUint16(n) == << (n \div 256) % 256, n % 256 >>

\* binary.BigEndian.Uint32
BEUint32(b) == [hi |-> b[1] * 256 + b[2], lo |-> b[3] * 256 + b[4]]

Zeros(n) == [i \in 1..n |-> 0]

RECURSIVE Concat(_)
Concat(ss) == IF ss = <<>> THEN <<>> ELSE Head(ss) \o Concat(Tail(ss))

(***************************************************************************)
(* strings.Split and strconv.Atoi on host strings                          *)
(***************************************************************************)
DigitChars == <<"0", "1", "2", "3", "4", "5", "6", "7", "8", "9">>

IsDigit(c) == \E i \in 1..10 : DigitChars[i] = c

DigitVal(c) == (CHOOSE i \in 1..10 : DigitChars[i] = c) - 1

RECURSIVE SplitFrom(_, _, _)
\* the fields of s, cur being the part of the first field read so far
SplitFrom(s, sep, cur) ==
    IF s = <<>> THEN <<cur>>
    ELSE IF Head(s) = sep THEN <<cur>> \o SplitFrom(Tail(s), sep, <<>>)
    ELSE SplitFrom(Tail(s), sep, Append(cur, Head(s)))

\* strings.Split(s, sep) for a one-character separator
Split(s, sep) == SplitFrom(s, sep, <<>>)

RECURSIVE DigitsVal(_, _)
DigitsVal(s, acc) ==
    IF s = <<>> THEN acc ELSE DigitsVal(Tail(s), acc * 10 + DigitVal(Head(s)))

\* strconv.Atoi with the error dropped (intSection, _ := strconv.Atoi(section)):
\* the number, or 0 when the text is not a decimal integer
AtoiOrZero(s) ==
    LET signed == s # <<>> /\ Head(s) \in {"+", "-"}
        digits == IF signed THEN Tail(s) ELSE s
    IN  IF digits = <<>> \/ \E i \in 1..Len(digits) : ~IsDigit(digits[i])
        THEN 0
        ELSE IF signed /\ Head(s) = "-" THEN 0 - DigitsVal(digits, 0)
        ELSE DigitsVal(digits, 0)

(***************************************************************************)
(* Packet codec                                                            *)
(***************************************************************************)
HeaderLen == 11

\* ParsePacket: data[0], data[1:5], data[5:9], data[9:11], data[11:].  The last
\* slice expression panics whenever len(data) < 11 (and data[0] when it is 0).
ParsePacket(data) ==
    IF Len(data) < HeaderLen THEN Panic
    ELSE [ok |-> TRUE, kind |-> "packet",
          pType |-> <<data[1]>>,
          seqNo |-> SubSeq(data, 2, 5),
          peerAddr |-> SubSeq(data, 6, 9),
          peerPort |-> SubSeq(data, 10, 11),
          payload |-> SubSeq(data, 12, Len(data))]

\* the loop of makePacket over the octets: peerAddrBytes[i] = byte(intSection)
AddrBytes(sections) ==
    [i \in 1..4 |-> IF i <= Len(sections) THEN Byte(AtoiOrZero(sections[i])) ELSE 0]

makePacket(pType, seqNo, host, payload) ==
    LET addrSplit == Split(host, ":")
        peerAddrSplit == Split(addrSplit[1], ".")
    IN  IF Len(peerAddrSplit) > 4 THEN Panic        \* peerAddrBytes[4]
        ELSE IF Len(addrSplit) < 2 THEN Panic       \* addrSplit[1]
        ELSE [ok |-> TRUE, kind |-> "packet",
              pType |-> <<Byte(pType)>>,
              seqNo |-> PutUint32(seqNo),
              peerAddr |-> AddrBytes(peerAddrSplit),
              peerPort |-> PutUint16(Uint16(AtoiOrZero(addrSplit[2]))),
              payload |-> payload]

getBytesFromPacket(packet) ==
    packet.pType \o packet.seqNo \o packet.peerAddr \o packet.peerPort \o packet.payload

\* getBytesFromPacket(makePacket(...)) as every caller composes them
PacketBytes(pType, seqNo, host, payload) ==
    getBytesFromPacket(makePacket(pType, seqNo, host, payload))

(***************************************************************************)
(* Segmenter                                                               *)
(***************************************************************************)
ChunkSize == 1013

\* int(math.Ceil(float64(len(payload)) / float64(1013)))
NumPackets(payload) == (Len(payload) + ChunkSize - 1) \div ChunkSize

\* getDataPacketBytes: the slice of packet bytes and the count it returns.  A
\* slot the function never assigns keeps make's nil, the empty byte string.
getDataPacketBytes(seqNo, host, payload) ==
    LET numPackets == NumPackets(payload)
        residue == Len(payload) % ChunkSize
        full(i) == PacketBytes(0, U32Add(seqNo, i - 1), host,
                               SubSeq(payload, (i - 1) * ChunkSize + 1, i * ChunkSize))
        last == PacketBytes(0, U32Add(seqNo, numPackets - 1), host,
                            SubSeq(payload, (numPackets - 1) * ChunkSize + 1, Len(payload)))
    IN  IF numPackets = 1
        THEN [packets |-> <<PacketBytes(0, seqNo, host, payload)>>, n |-> 1]
        ELSE [packets |-> [i \in 1..numPackets |->
                              IF i < numPackets THEN full(i)
                              ELSE IF residue > 0 THEN last
                              ELSE <<>>],
              n |-> numPackets]


(***************************************************************************)
(* The codec and the segmenter as calls: Init draws the arguments, one     *)
(* action per function applies it.                                         *)
(***************************************************************************)
MaxUint32 == [hi |-> 65535, lo |-> 65535]

MaxParseLen == 13
MaxChunks == 2
MaxDelta == 2

\* "127.0.0.1:8007"
HostLocal == <<"1", "2", "7", ".", "0", ".", "0", ".", "1", ":", "8", "0", "0", "7">>
\* "10.0.1:80": three octets
HostShort == <<"1", "0", ".", "0", ".", "1", ":", "8", "0">>
\* "1.2.3.4.5:80": five octets
HostLong == <<"1", ".", "2", ".", "3", ".", "4", ".", "5", ":", "8", "0">>
\* "a.b.c.d:80": no octet is a number
HostAlpha == <<"a", ".", "b", ".", "c", ".", "d", ":", "8", "0">>
\* "10.x.0.7:80": one octet is not a number
HostMixed == <<"1", "0", ".", "x", ".", "0", ".", "7", ":", "8", "0">>
\* "localhost:8007"
HostName == <<"l", "o", "c", "a", "l", "h", "o", "s", "t", ":", "8", "0", "0", "7">>
\* "127.0.0.1": no port
HostNoPort == <<"1", "2", "7", ".", "0", ".", "0", ".", "1">>

Hosts == {HostLocal, HostShort, HostLong, HostAlpha, HostMixed, HostName, HostNoPort}

\* a byte string of length n whose bytes differ from place to place
Pattern(n, salt) == [i \in 1..n |-> (i * 7 + salt) % 256]

ParseInputs ==
    { [data |-> Pattern(n, salt)] : n \in 0..MaxParseLen, salt \in 0..1 }

MakeInputs ==
    { [pType |-> t, seqNo |-> s, host |-> h, payload |-> p] :
        t \in 0..4, s \in {U32(1), MaxUint32}, h \in Hosts, p \in {<<>>, <<104, 105>>} }

SegmentLens ==
    { n \in 0..(MaxChunks * ChunkSize + MaxDelta) :
        \/ \E k \in 0..MaxChunks : n - k * ChunkSize \in (0 - MaxDelta)..MaxDelta
        \/ n \in {11, 2000} }

SegmentInputs ==
    { [seqNo |-> s, host |-> HostLocal, payload |-> Pattern(n, salt)] :
        s \in {U32(4), U32(65535)}, n \in SegmentLens, salt \in 0..1 }

InitPure ==
    /\ pc = "call"
    /\ \/ op = "ParsePacket" /\ in \in ParseInputs
       \/ op = "makePacket" /\ in \in MakeInputs
       \/ op = "getDataPacketBytes" /\ in \in SegmentInputs
    /\ out = None
    /\ wrote = <<>>
    /\ hs = None
    /\ loop = None
    /\ task = None

CallParsePacket ==
    /\ pc = "call" /\ op = "ParsePacket"
    /\ out' = ParsePacket(in.data)
    /\ pc' = "done"
    /\ UNCHANGED <<op, in, wrote, hs, loop, task>>

CallMakePacket ==
    /\ pc = "call" /\ op = "makePacket"
    /\ out' = makePacket(in.pType, in.seqNo, in.host, in.payload)
    /\ pc' = "done"
    /\ UNCHANGED <<op, in, wrote, hs, loop, task>>

CallGetDataPacketBytes ==
    /\ pc = "call" /\ op = "getDataPacketBytes"
    /\ out' = getDataPacketBytes(in.seqNo, in.host, in.payload)
    /\ pc' = "done"
    /\ UNCHANGED <<op, in, wrote, hs, loop, task>>

NextPure == CallParsePacket \/ CallMakePacket \/ CallGetDataPacketBytes

SpecPure == InitPure /\ [][NextPure]_vars


(***************************************************************************)
(* The socket                                                              *)
(***************************************************************************)
\* conn.ReadFromUDP(readBuf) into a fresh make([]byte, size): the datagram's
\* first size bytes, the rest of the buffer left zero.  The callers drop the
\* byte count and parse the whole buffer.
ReadInto(size, dgram) ==
    [i \in 1..size |-> IF i <= Len(dgram) THEN dgram[i] ELSE 0]

RECURSIVE Itoa(_)
\* fmt.Sprintf("%d", n) for n >= 0, as ASCII bytes
Itoa(n) == IF n < 10 THEN <<48 + n>> ELSE Itoa(n \div 10) \o <<48 + (n % 10)>>

(***************************************************************************)
(* handshake                                                               *)
(***************************************************************************)
MaxSynSent == 3
MaxNumPackets == 3

seqInit == U32(1)

\* every datagram the peer side may deliver while the handshake reads:
\* well-formed packets of each kind and several sequence numbers, truncated
\* headers, an empty datagram, and a packet with a payload
HandshakeDatagrams ==
    { PacketBytes(k, U32(s), HostLocal, <<>>) : k \in 0..4, s \in 0..3 }
        \cup { PacketBytes(3, v, HostLocal, <<>>) : v \in {U32(65538), MaxUint32} }
        \cup { <<>>, <<3>>, <<3, 0, 0, 0, 2>>, <<3, 0, 0, 0>>,
                PacketBytes(3, U32(2), HostLocal, <<111, 107>>) }

\* the arguments of a call: the request calls segment the request for the
\* same host before they call handshake, so the host is one makePacket accepts
HandshakeInputs ==
    { [host |-> h, numPackets |-> n] :
         h \in {HostLocal, HostName}, n \in 1..MaxNumPackets }

InitHandshake ==
    /\ pc = "INIT"
    /\ op = "handshake"
    /\ in \in HandshakeInputs
    /\ out = None
    /\ wrote = <<>>
    /\ hs = [sent |-> <<>>, readBuf |-> <<>>, last |-> "none", deadline |-> "none"]
    /\ loop = None
    /\ task = None

\* an acceptance test that leaves out the sequence-number comparison
SynAckAcceptedAnySeq(synAck, init) == synAck.pType[1] = 3

\* an acceptance test that compares with the initial sequence number itself
SynAckAcceptedSameSeq(synAck, init) ==
    synAck.pType[1] = 3 /\ BEUint32(synAck.seqNo) = init

\* synAck.pType[0] == 3 && receivedSeq == seqInit+1
SynAckAccepted(synAck, init) ==
    synAck.pType[1] = 3 /\ BEUint32(synAck.seqNo) = U32Add(init, 1)

\* makePacket(2, seqInit, parsedURL, fmt.Sprintf("%d", numPackets))
SynPacket(host, numPackets) == makePacket(2, seqInit, host, Itoa(numPackets))

\* the SYN of each call, computed once
SynPackets == [i \in HandshakeInputs |-> SynPacket(i.host, i.numPackets)]

\* top of the loop: arm the 2 s read deadline and write the SYN.  The loop has
\* no retry cap; hs.sent, the record of what went out, keeps the first
\* MaxSynSent SYNs (and the ACK)
HandshakeSendSyn ==
    /\ op = "handshake" /\ pc = "INIT"
    /\ LET packet == SynPackets[in]
       IN  IF packet.ok
           THEN /\ wrote' = <<getBytesFromPacket(packet)>>
                /\ hs' = [hs EXCEPT
                            !.sent = IF Len(@) < MaxSynSent
                                     THEN Append(@, getBytesFromPacket(packet))
                                     ELSE @,
                            !.deadline = "armed"]
                /\ pc' = "SYN_SENT"
           ELSE /\ wrote' = <<>>
                /\ hs' = [hs EXCEPT !.deadline = "armed"]
                /\ pc' = "panic"
    /\ UNCHANGED <<op, in, out, loop, task>>

\* readErr != nil: the deadline passed (or the read failed); continue
HandshakeReadError ==
    /\ op = "handshake" /\ pc = "SYN_SENT"
    /\ hs' = [hs EXCEPT !.readBuf = Zeros(HeaderLen), !.last = "error"]
    /\ wrote' = <<>>
    /\ pc' = "INIT"
    /\ UNCHANGED <<op, in, out, loop, task>>

\* the datagram dgram is read into the 11-byte buffer and checked
HandshakeReadDgram(dgram) ==
    /\ op = "handshake" /\ pc = "SYN_SENT"
    /\ LET readBuf == ReadInto(HeaderLen, dgram)
           synAck == ParsePacket(readBuf)
           receivedSeq == BEUint32(synAck.seqNo)
           ack == PacketBytes(1, U32Add(receivedSeq, 1), in.host, <<>>)
       IN  IF SynAckAccepted(synAck, seqInit)
           THEN /\ wrote' = <<ack>>
                /\ hs' = [hs EXCEPT !.sent = Append(@, ack),
                                    !.readBuf = readBuf, !.last = "packet"]
                /\ pc' = "ESTABLISHED"
           ELSE /\ wrote' = <<>>
                /\ hs' = [hs EXCEPT !.readBuf = readBuf, !.last = "packet"]
                /\ pc' = "INIT"
    /\ UNCHANGED <<op, in, out, loop, task>>

\* the read returns some datagram
HandshakeRead == \E dgram \in HandshakeDatagrams : HandshakeReadDgram(dgram)

NextHandshake == HandshakeSendSyn \/ HandshakeReadError \/ HandshakeRead

SpecHandshake == InitHandshake /\ [][NextHandshake]_vars

\* the handshake's loop is the only thread and always takes its next step:
\* a write returns, and a read returns when a datagram arrives or, at the
\* latest, when the 2 s deadline passes
SpecHandshakeLive == SpecHandshake /\ WF_vars(NextHandshake)

(***************************************************************************)
(* Claims about the handshake (under SpecHandshake)                        *)
(***************************************************************************)
\* the datagrams of wire kind k among ds
OfKind(ds, k) == SelectSeq(ds, LAMBDA d : d # <<>> /\ d[1] = k)

\* the header fields of the last buffer read say SYN_ACK, sequence initial+1
ReadValidSynAck ==
    /\ hs.last = "packet"
    /\ hs.readBuf[1] = 3
    /\ SubSeq(hs.readBuf, 2, 5) = <<0, 0, 0, 2>>

\* C3: a received packet that is not a SYN_ACK with sequence number initial+1
\* never moves the handshake to ESTABLISHED and causes no ACK; a SYN_ACK with
\* sequence number initial+1 moves it to ESTABLISHED, and exactly one ACK, with
\* sequence number received+1, is sent over the whole handshake.
HandshakeCorrect ==
    /\ pc = "ESTABLISHED" <=> ReadValidSynAck
    /\ pc # "ESTABLISHED" => OfKind(hs.sent, 1) = <<>>
    /\ pc = "ESTABLISHED" =>
          /\ Len(OfKind(hs.sent, 1)) = 1
          /\ SubSeq(OfKind(hs.sent, 1)[1], 2, 5) = <<0, 0, 0, 3>>
          /\ wrote = OfKind(hs.sent, 1)

\* the handshake is established by a valid SYN_ACK after an earlier read was
\* discarded or timed out
HandshakeEstablishedAfterRetry ==
    pc = "ESTABLISHED" /\ Len(OfKind(hs.sent, 2)) >= 2

\* the datagram (or buffer) d says SYN_ACK, sequence number initial+1
IsValidSynAck(d) == Len(d) >= 5 /\ d[1] = 3 /\ SubSeq(d, 2, 5) = <<0, 0, 0, 2>>

\* d is a SYN with sequence number 1 and the fragment count as payload
IsSyn(d) ==
    /\ Len(d) >= HeaderLen
    /\ d[1] = 2
    /\ SubSeq(d, 2, 5) = <<0, 0, 0, 1>>
    /\ SubSeq(d, HeaderLen + 1, Len(d)) = Itoa(in.numPackets)

\* C18: a received packet that is not a SYN_ACK with sequence number
\* initial+1 is discarded with nothing sent and nothing changed, and a SYN
\* (sequence number 1, payload the fragment count) is sent only on entry and
\* after a read that timed out.
HandshakeDiscardRule ==
    [][ /\ (pc = "SYN_SENT" /\ hs'.last = "packet" /\ ~IsValidSynAck(hs'.readBuf))
            => (wrote' = <<>> /\ hs'.sent = hs.sent /\ pc' # "ESTABLISHED")
        /\ (pc = "INIT" /\ pc' = "SYN_SENT")
            => (/\ hs.last \in {"none", "error"}
                /\ Len(wrote') = 1 /\ IsSyn(wrote'[1])) ]_vars

\* some valid SYN_ACK is delivered to the pending read
HandshakeReadValid ==
    \E dgram \in HandshakeDatagrams : IsValidSynAck(dgram) /\ HandshakeReadDgram(dgram)

\* C19: the handshake returns exactly when a valid SYN_ACK has been read; if
\* the channel is fair (as long as the handshake comes back to its read again
\* and again, a valid SYN_ACK is delivered to one of those reads again and
\* again: strong fairness of that delivery, which is possible exactly when a
\* read is pending) it reaches ESTABLISHED; and if no packet is ever delivered
\* it sends SYN after SYN for ever, never returning and never producing a
\* result or an error.
HandshakeTermination ==
    /\ [](pc = "ESTABLISHED" <=> ReadValidSynAck)
    /\ ([]<>(pc = "SYN_SENT") => []<><<HandshakeReadValid>>_vars)
          => <>(pc = "ESTABLISHED")
    /\ [](hs.last # "packet")
          => /\ []<>(pc = "SYN_SENT" /\ Len(wrote) = 1 /\ IsSyn(wrote[1]))
             /\ [](pc \in {"INIT", "SYN_SENT"} /\ out = None)

\* the handshake is established after more SYNs than the record keeps, the
\* read before the valid SYN_ACK having timed out
HandshakeEstablishedLate ==
    /\ pc = "ESTABLISHED"
    /\ Len(OfKind(hs.sent, 2)) = MaxSynSent
    /\ Len(wrote) = 1 /\ wrote[1][1] = 1

(***************************************************************************)
(* remove                                                                  *)
(***************************************************************************)
\* the index of the first packet of packetList with removePack's sequence
\* number, 0 when there is none
FirstMatch(packetList, removePack) ==
    LET hits == { i \in 1..Len(packetList) :
                    BEUint32(packetList[i].seqNo) = BEUint32(removePack.seqNo) }
    IN  IF hits = {} THEN 0 ELSE CHOOSE i \in hits : \A j \in hits : i <= j

remove(packetList, removePack) ==
    LET i == FirstMatch(packetList, removePack)
    IN  IF i = 0 THEN packetList
        ELSE SubSeq(packetList, 1, i - 1) \o SubSeq(packetList, i + 1, Len(packetList))

(***************************************************************************)
(* UDPGet after the handshake has returned                                 *)
(***************************************************************************)
ReadSize == 1024
MaxReads == 3
MaxFragments == 2
MaxSeq == 4

Fill(n, b) == [i \in 1..n |-> b]

\* "GET / HTTP/1.0\r\n\r\n\r\n" stands for requestString: one request fragment
GetRequest == <<71, 69, 84, 32, 47, 32, 72, 84, 84, 80, 47, 49, 46, 48, 13, 10, 13, 10, 13, 10>>

\* packets, _ := getDataPacketBytes(4, parsedURL, requestString)
RequestPackets == getDataPacketBytes(U32(4), in.host, in.request).packets

\* DATA datagrams: short ones (the rest of the read buffer stays zero, so the
\* count byte reads 0) and full 1024-byte ones whose last byte is the count
DataDatagrams ==
    { PacketBytes(0, U32(q), HostLocal, body) :
        q \in (0..MaxSeq) \cup {7, 65537}, body \in {<<120>>, <<121, 122, 123>>} }
      \cup { PacketBytes(0, U32(q), HostLocal, Fill(ChunkSize - 2, 97) \o <<0, n>>) :
                q \in (0..MaxSeq) \cup {7}, n \in 1..MaxFragments }

\* ACK, NAK and stray handshake packets
ControlDatagrams ==
    { PacketBytes(k, U32(q), HostLocal, <<>>) : k \in {1, 4}, q \in {4, 5} }
      \cup { PacketBytes(3, U32(2), HostLocal, <<>>) }

GetDatagrams == DataDatagrams \cup ControlDatagrams

\* readBuf := make([]byte, 1024); conn.ReadFromUDP(readBuf); ParsePacket(readBuf)
GetResponsePackets == { ParsePacket(ReadInto(ReadSize, dgram)) : dgram \in GetDatagrams }

InitGet ==
    /\ pc = "get_write"
    /\ op = "UDPGet"
    /\ in = [host |-> HostLocal, request |-> GetRequest]
    /\ out = None
    /\ wrote = <<>>
    /\ hs = [sent |-> <<>>, readBuf |-> <<>>, last |-> "packet", deadline |-> "armed"]
    /\ loop = [expectedSeqNo |-> U32(1),
               numOfResponsePackets |-> 0 - 1,
               responsePayload |-> <<>>,
               nakList |-> <<>>,
               acks |-> Fill(5, U32(0)),
               naks |-> Fill(5, U32(0)),
               responsePacket |-> None,
               reads |-> 0]
    /\ task = [state |-> "starting", packet |-> None]

\* for _, packetBytes := range packets { conn.Write(packetBytes) }
GetWriteRequest ==
    /\ op = "UDPGet" /\ pc = "get_write"
    /\ wrote' = RequestPackets
    /\ pc' = "get_read"
    /\ UNCHANGED <<op, in, out, hs, loop, task>>

\* the deadline armed by the handshake's last SetReadDeadline passes
GetDeadlinePasses ==
    /\ op = "UDPGet" /\ pc \in {"get_write", "get_read"}
    /\ hs.deadline = "armed"
    /\ hs' = [hs EXCEPT !.deadline = "expired"]
    /\ wrote' = <<>>
    /\ UNCHANGED <<pc, op, in, out, loop, task>>

\* readErr != nil: continue
GetReadError ==
    /\ op = "UDPGet" /\ pc = "get_read"
    /\ loop' = [loop EXCEPT !.responsePacket = ParsePacket(Zeros(ReadSize))]
    /\ wrote' = <<>>
    /\ UNCHANGED <<pc, op, in, out, hs, task>>

\* the slice the loop stores: payload[0 : len(payload)-1-1]
ResponseSlice(payload) == SubSeq(payload, 1, Len(payload) - 2)

\* numOfResponsePackets as fixed by the first DATA packet's last payload byte
CountFrom(payload) ==
    IF payload[Len(payload)] = 0 THEN 1 ELSE payload[Len(payload)]

\* the packet written for responseSeq in the in-order and duplicate branches
AckPacket(responseSeq, host) == PacketBytes(4, responseSeq, host, <<>>)

\* the packets written by the gap branch: packetNum from expectedSeqNo up to
\* responseSeq - 1
GapPackets(expectedSeqNo, responseSeq, host) ==
    [i \in 1..(responseSeq.lo - expectedSeqNo.lo) |->
        PacketBytes(4, U32Add(expectedSeqNo, i - 1), host, <<>>)]

GapNumbers(expectedSeqNo, responseSeq) ==
    [i \in 1..(responseSeq.lo - expectedSeqNo.lo) |-> U32Add(expectedSeqNo, i - 1)]

\* checkNotEmpty
checkNotEmpty(responsePayload) ==
    \A i \in 1..Len(responsePayload) : Len(responsePayload[i]) # 0

\* stringifiedResponse
stringifiedResponse(responsePayload) == Concat(responsePayload)

\* the DATA branch of one iteration: the new locals, the datagrams written and
\* how the iteration ends
GetOnData(l, host) ==
    LET payload == l.responsePacket.payload
        first == l.numOfResponsePackets = 0 - 1
        num == IF first THEN CountFrom(payload) ELSE l.numOfResponsePackets
        buf == IF first THEN Fill(num + 5, <<>>) ELSE l.responsePayload
        responseSeq == BEUint32(l.responsePacket.seqNo)
        l1 == [l EXCEPT !.numOfResponsePackets = num, !.responsePayload = buf]
    IN  IF ~U32Below(responseSeq, Len(buf))
        THEN [loop |-> l1, wrote |-> <<>>, end |-> "panic", value |-> <<>>]
        ELSE
          LET l2 == [l1 EXCEPT !.responsePayload[responseSeq.lo + 1] = ResponseSlice(payload),
                               !.acks = Append(@, responseSeq)]
              l3 == IF responseSeq = l.expectedSeqNo
                    THEN [l2 EXCEPT !.expectedSeqNo = U32Add(@, 1)]
                    ELSE IF U32Less(responseSeq, l.expectedSeqNo)
                    THEN l2
                    ELSE [l2 EXCEPT !.naks = @ \o GapNumbers(l.expectedSeqNo, responseSeq),
                                    !.expectedSeqNo = U32Add(responseSeq, 1)]
              w == IF responseSeq = l.expectedSeqNo \/ U32Less(responseSeq, l.expectedSeqNo)
                   THEN <<AckPacket(responseSeq, host)>>
                   ELSE GapPackets(l.expectedSeqNo, responseSeq, host)
              slots == SubSeq(l3.responsePayload, 2, num + 1)
          IN  IF num = 1
              THEN [loop |-> l3, wrote |-> w, end |-> "returned",
                    value |-> l3.responsePayload[responseSeq.lo + 1]]
              ELSE IF checkNotEmpty(slots)
              THEN [loop |-> l3, wrote |-> w, end |-> "returned",
                    value |-> stringifiedResponse(slots)]
              ELSE [loop |-> l3, wrote |-> w, end |-> "get_read", value |-> <<>>]

\* one iteration of the receive loop on a datagram
GetRead ==
    /\ op = "UDPGet" /\ pc = "get_read"
    /\ hs.deadline = "armed"
    /\ loop.reads < MaxReads
    /\ \E responsePacket \in GetResponsePackets :
          LET kind == responsePacket.pType[1]
              handed == kind \in {1, 4} /\ task.state = "receiving"
              l0 == [loop EXCEPT !.responsePacket = responsePacket,
                                 !.reads = @ + 1,
                                 !.nakList = IF kind = 4 THEN Append(@, responsePacket)
                                             ELSE IF kind = 1 THEN remove(@, responsePacket)
                                             ELSE @]
              r == GetOnData(l0, in.host)
          IN  /\ task' = IF handed THEN [state |-> "handling", packet |-> responsePacket]
                         ELSE task
              /\ IF kind = 0
                 THEN /\ loop' = r.loop
                      /\ wrote' = r.wrote
                      /\ pc' = r.end
                      /\ out' = IF r.end = "returned"
                                THEN [ok |-> TRUE, kind |-> "returned", value |-> r.value]
                                ELSE out
                 ELSE /\ loop' = l0
                      /\ wrote' = <<>>
                      /\ UNCHANGED <<pc, out>>
    /\ UNCHANGED <<op, in, hs>>

\* the goroutine reaches (or returns to) the receive of for packet := range packetChan
GetTaskReceive ==
    /\ op = "UDPGet" /\ pc # "panic"
    /\ task.state = "starting"
    /\ task' = [task EXCEPT !.state = "receiving"]
    /\ wrote' = <<>>
    /\ UNCHANGED <<pc, op, in, out, hs, loop>>

\* the goroutine's loop body on the packet it received
GetTaskHandle ==
    /\ op = "UDPGet" /\ pc # "panic"
    /\ task.state = "handling"
    /\ LET missingNo == BEUint32(task.packet.seqNo)
           inRange == U32Below(missingNo, 4 + Len(RequestPackets)) /\ missingNo.lo >= 4
       IN  IF task.packet.pType[1] # 4
           THEN /\ task' = [state |-> "starting", packet |-> None]
                /\ wrote' = <<>>
                /\ pc' = pc
           ELSE IF inRange
           THEN /\ task' = [state |-> "starting", packet |-> None]
                \* once UDPGet has returned, its deferred conn.Close() has run
                \* and conn.Write fails
                /\ wrote' = IF pc = "returned" THEN <<>>
                            ELSE <<RequestPackets[missingNo.lo - 3]>>
                /\ pc' = pc
           ELSE /\ task' = [state |-> "panic", packet |-> task.packet]
                /\ wrote' = <<>>
                /\ pc' = "panic"
    /\ UNCHANGED <<op, in, out, hs, loop>>

NextGet ==
    \/ GetWriteRequest
    \/ GetDeadlinePasses
    \/ GetReadError
    \/ GetRead
    \/ GetTaskReceive
    \/ GetTaskHandle

SpecGet == InitGet /\ [][NextGet]_vars

(***************************************************************************)
(* UDPPost: the receive loop and the retransmission goroutine.  The        *)
(* variable err of UDPPost is assigned by both without synchronisation     *)
(* (conn.ReadFromUDP and conn.Write in the loop, conn.Write in the         *)
(* goroutine), so the loop's test of err is a step of its own: the         *)
(* goroutine may assign err between the read and the test.                 *)
(***************************************************************************)
ChanCap == 1024
MaxPostReads == 3

\* request strings of one fragment, of two fragments, and of exactly 2 * 1013
\* bytes
PostRequests == {GetRequest, Pattern(ChunkSize + 1, 3), Pattern(2 * ChunkSize, 5)}

PostDatagrams ==
    { PacketBytes(0, U32(1), HostLocal, body) :
        body \in {<<111, 107>>, Fill(ChunkSize, 98)} }
      \cup { PacketBytes(k, U32(q), HostLocal, <<>>) : k \in {1, 4}, q \in {3, 4, 5} }
      \cup { PacketBytes(3, U32(2), HostLocal, <<>>) }

InitPost ==
    /\ pc = "post_parse"
    /\ op = "UDPPost"
    /\ in \in { [host |-> HostLocal, request |-> r] : r \in PostRequests }
    /\ out = None
    /\ wrote = <<>>
    /\ hs = [sent |-> <<>>, readBuf |-> <<>>, last |-> "packet", deadline |-> "armed"]
    /\ loop = [ackPackets |-> <<>>,
               responsePacket |-> None,
               dgram |-> None,
               reads |-> 0]
    /\ task = [state |-> "receiving", chan |-> <<>>, nakList |-> <<>>,
               todo |-> <<>>, err |-> "nil"]

\* ackPackets[i] = ParsePacket(copyPacket), before the handshake
PostParseRequest ==
    /\ op = "UDPPost" /\ pc = "post_parse"
    /\ LET parsed == [i \in 1..Len(RequestPackets) |-> ParsePacket(RequestPackets[i])]
       IN  IF \E i \in 1..Len(parsed) : ~parsed[i].ok
           THEN pc' = "panic" /\ loop' = loop
           ELSE pc' = "post_write" /\ loop' = [loop EXCEPT !.ackPackets = parsed]
    /\ wrote' = <<>>
    /\ UNCHANGED <<op, in, out, hs, task>>

\* for _, packetBytes := range packets { _, err = conn.Write(packetBytes) }
PostWriteRequest ==
    /\ op = "UDPPost" /\ pc = "post_write"
    /\ wrote' = RequestPackets
    /\ \E e \in {"nil", "error"} : task' = [task EXCEPT !.err = e]
    /\ pc' = "post_read"
    /\ UNCHANGED <<op, in, out, hs, loop>>

\* _, _, err = conn.ReadFromUDP(readBuf) ends at the 5 s deadline or with an
\* I/O error: err is set, the buffer is still zero
PostReadTimeout ==
    /\ op = "UDPPost" /\ pc = "post_read"
    /\ loop' = [loop EXCEPT !.responsePacket = ParsePacket(Zeros(ReadSize)),
                            !.dgram = None]
    /\ task' = [task EXCEPT !.err = "error"]
    /\ wrote' = <<>>
    /\ pc' = "post_check"
    /\ UNCHANGED <<op, in, out, hs>>

\* _, _, err = conn.ReadFromUDP(readBuf) returns a datagram: err is nil
PostReadDatagram ==
    /\ op = "UDPPost" /\ pc = "post_read"
    /\ loop.reads < MaxPostReads
    /\ \E dgram \in PostDatagrams :
          loop' = [loop EXCEPT !.responsePacket = ParsePacket(ReadInto(ReadSize, dgram)),
                               !.dgram = [ok |-> TRUE, kind |-> "datagram", bytes |-> dgram],
                               !.reads = @ + 1]
    /\ task' = [task EXCEPT !.err = "nil"]
    /\ wrote' = <<>>
    /\ pc' = "post_check"
    /\ UNCHANGED <<op, in, out, hs>>

\* if err != nil: write every packet of ackPackets again and continue
PostResend ==
    /\ op = "UDPPost" /\ pc = "post_check"
    /\ task.err # "nil"
    /\ wrote' = [i \in 1..Len(loop.ackPackets) |-> getBytesFromPacket(loop.ackPackets[i])]
    /\ \E e \in {"nil", "error"} :
          task' = [task EXCEPT !.err = IF loop.ackPackets = <<>> THEN @ ELSE e]
    /\ pc' = "post_read"
    /\ UNCHANGED <<op, in, out, hs, loop>>

\* the channel after select { case packetChan <- p: packetChan <- p; default: },
\* as far as the sends go without blocking
ChanAfterSends(chan, p) ==
    IF Len(chan) >= ChanCap THEN chan
    ELSE IF Len(chan) + 1 >= ChanCap THEN Append(chan, p)
    ELSE Append(Append(chan, p), p)

\* the second send finds the channel full: the loop blocks in it
SecondSendBlocks(chan) == Len(chan) + 1 = ChanCap

\* err == nil: the rest of the iteration on responsePacket
PostProcess ==
    /\ op = "UDPPost" /\ pc = "post_check"
    /\ task.err = "nil"
    /\ LET p == loop.responsePacket
           kind == p.pType[1]
       IN  /\ loop' = [loop EXCEPT !.ackPackets = IF kind = 1 THEN remove(@, p) ELSE @]
           /\ task' = [task EXCEPT !.chan = IF kind \in {1, 4}
                                            THEN ChanAfterSends(@, p) ELSE @]
           /\ pc' = IF kind \in {1, 4} /\ SecondSendBlocks(task.chan) THEN "post_send"
                    ELSE IF kind = 0 THEN "returned"
                    ELSE "post_read"
           /\ out' = IF kind = 0
                     THEN [ok |-> TRUE, kind |-> "returned", value |-> p.payload]
                     ELSE out
    /\ wrote' = <<>>
    /\ UNCHANGED <<op, in, hs>>

\* for packet := range packetChan: take the next notification and update
\* nakList; a loop blocked in its second send completes it
PostTaskReceive ==
    /\ op = "UDPPost" /\ pc # "panic"
    /\ task.state = "receiving"
    /\ task.chan # <<>>
    /\ LET packet == Head(task.chan)
           nakList == IF packet.pType[1] = 4 THEN Append(task.nakList, packet)
                      ELSE IF packet.pType[1] = 1 THEN remove(task.nakList, packet)
                      ELSE task.nakList
           rest == IF pc = "post_send"
                   THEN Append(Tail(task.chan), loop.responsePacket)
                   ELSE Tail(task.chan)
       IN  task' = [task EXCEPT !.chan = rest, !.nakList = nakList, !.todo = nakList,
                                !.state = IF nakList = <<>> THEN "receiving" ELSE "sending"]
    /\ pc' = IF pc = "post_send" THEN "post_read" ELSE pc
    /\ wrote' = <<>>
    /\ UNCHANGED <<op, in, out, hs, loop>>

\* one round of for _, nakPack := range nakList: index packets, write, set err
PostTaskResend ==
    /\ op = "UDPPost" /\ pc # "panic"
    /\ task.state = "sending"
    /\ LET missingNo == BEUint32(Head(task.todo).seqNo)
           inRange == U32Below(missingNo, 4 + Len(RequestPackets)) /\ missingNo.lo >= 4
           after == IF Len(task.todo) = 1 THEN "receiving" ELSE "sending"
       IN  IF inRange
           THEN \* once UDPPost has returned, its deferred conn.Close() has run
                \* and conn.Write fails
                /\ wrote' = IF pc = "returned" THEN <<>>
                            ELSE <<RequestPackets[missingNo.lo - 3]>>
                /\ \E e \in IF pc = "returned" THEN {"error"} ELSE {"nil", "error"} :
                      task' = [task EXCEPT !.todo = Tail(@), !.state = after, !.err = e]
                /\ pc' = pc
           ELSE /\ wrote' = <<>>
                /\ task' = [task EXCEPT !.state = "panic"]
                /\ pc' = "panic"
    /\ UNCHANGED <<op, in, out, hs, loop>>

NextPost ==
    \/ PostParseRequest
    \/ PostWriteRequest
    \/ PostReadTimeout
    \/ PostReadDatagram
    \/ PostResend
    \/ PostProcess
    \/ PostTaskReceive
    \/ PostTaskResend

SpecPost == InitPost /\ [][NextPost]_vars

(***************************************************************************)
(* Claims about the segmenter and the codec (under SpecPure)               *)
(***************************************************************************)
SegmenterReturned == pc = "done" /\ op = "getDataPacketBytes"

\* the payload carried by one element of the segmenter's result
PayloadOfBytes(b) == IF ParsePacket(b).ok THEN ParsePacket(b).payload ELSE <<>>

Reassemble(packets) == Concat([i \in 1..Len(packets) |-> PayloadOfBytes(packets[i])])

\* max(1, ceil(len / 1013))
ExpectedCount(payload) ==
    IF Len(payload) = 0 THEN 1 ELSE (Len(payload) + ChunkSize - 1) \div ChunkSize

\* C4: for every payload P and base S, concatenating the payloads of the
\* packets the segmenter produced, in order, yields exactly P.
SegmenterRoundTrip ==
    SegmenterReturned => Reassemble(out.packets) = in.payload

\* C5: the segmenter returns exactly max(1, ceil(len(P)/1013)) well-formed DATA
\* packets; the i-th carries sequence number S+i, every packet but the last
\* carries 1013 payload bytes and the last carries the remainder.
SegmenterShape ==
    SegmenterReturned =>
        LET n == ExpectedCount(in.payload)
        IN  /\ Len(out.packets) = n
            /\ out.n = n
            /\ \A i \in 1..Len(out.packets) :
                   LET p == ParsePacket(out.packets[i])
                   IN  /\ p.ok
                       /\ p.pType = <<0>>
                       /\ BEUint32(p.seqNo) = U32Add(in.seqNo, i - 1)
                       /\ Len(p.payload) =
                              IF i < n THEN ChunkSize
                              ELSE Len(in.payload) - (n - 1) * ChunkSize

\* C6: decoding a byte sequence shorter than 11 bytes yields a MalformedPacket
\* error value, never a packet and never a crash.
DecodeShortIsMalformedPacket ==
    (pc = "done" /\ op = "ParsePacket" /\ Len(in.data) < HeaderLen)
        => out.kind = "MalformedPacket"

IsNumber(s) == s # <<>> /\ \A i \in 1..Len(s) : IsDigit(s[i])

\* the host part is not exactly four numeric octets
MalformedAddress(host) ==
    LET octets == Split(Split(host, ":")[1], ".")
    IN  Len(octets) # 4 \/ \E i \in 1..Len(octets) : ~IsNumber(octets[i])

\* C7: when the host is not exactly 4 numeric octets, building a packet fails
\* with an error: no packet with zero-filled address bytes, no crash.
EncodeRejectsMalformedAddress ==
    (pc = "done" /\ op = "makePacket" /\ MalformedAddress(in.host))
        => out.kind = "error"


(***************************************************************************)
(* Claims about the GET receive loop (under SpecGet)                       *)
(***************************************************************************)
\* this step is an iteration of the receive loop that read a DATA packet
GetReadsData ==
    /\ op = "UDPGet" /\ pc = "get_read"
    /\ loop'.reads = loop.reads + 1
    /\ loop'.responsePacket.pType = <<0>>

\* the sequence number carried by the packet read in this step
ReadSeq == BEUint32(loop'.responsePacket.seqNo)

\* datagram d is a header-only packet of wire kind k for sequence number v
IsControl(d, k, v) == Len(d) = HeaderLen /\ d[1] = k /\ SubSeq(d, 2, 5) = PutUint32(v)

\* C1: when the expected sequence number is E and a DATA packet with sequence
\* number E+k (k>0) arrives, the loop emits exactly k NAK packets, one for each
\* of E..E+k-1 and no other, and sets the expected sequence number to E+k+1.
GapDetection ==
    [][ (GetReadsData /\ U32Less(loop.expectedSeqNo, ReadSeq)) =>
          /\ wrote' # <<>>
          /\ IsControl(wrote'[1], 4, loop.expectedSeqNo)
          /\ \A i \in 1..Len(wrote') :
                \E v \in {U32Add(loop.expectedSeqNo, i - 1)} :
                   /\ IsControl(wrote'[i], 4, v)
                   /\ U32Less(v, ReadSeq)
                   /\ i = Len(wrote') => U32Add(v, 1) = ReadSeq
          /\ loop'.expectedSeqNo = U32Add(ReadSeq, 1) ]_vars

\* the fragment read in this step was received before and lies below the
\* expected sequence number
GetReadsDuplicate ==
    /\ GetReadsData
    /\ U32Less(ReadSeq, loop.expectedSeqNo)
    /\ U32Below(ReadSeq, Len(loop.responsePayload))
    /\ loop.responsePayload[ReadSeq.lo + 1] # <<>>

\* C2: a DATA packet below the expected sequence number (an already
\* acknowledged fragment) makes the loop send a repeated ACK for it and leaves
\* the expected sequence number, the tracking lists and the reassembly buffer
\* unchanged.
DuplicateIdempotence ==
    [][ GetReadsDuplicate =>
          /\ Len(wrote') = 1
          /\ IsControl(wrote'[1], 1, ReadSeq)
          /\ loop'.expectedSeqNo = loop.expectedSeqNo
          /\ loop'.nakList = loop.nakList
          /\ loop'.acks = loop.acks
          /\ loop'.naks = loop.naks
          /\ loop'.responsePayload = loop.responsePayload ]_vars

\* C10: a DATA packet whose sequence number equals the expected one makes the
\* loop send exactly one packet of kind ACK (wire kind 1) carrying that number,
\* no NAK, and increment the expected sequence number.
InOrderAck ==
    [][ (GetReadsData /\ ReadSeq = loop.expectedSeqNo) =>
          /\ Len(wrote') = 1
          /\ IsControl(wrote'[1], 1, ReadSeq)
          /\ loop'.expectedSeqNo = U32Add(loop.expectedSeqNo, 1) ]_vars

\* slots 1..totalFragments of the reassembly buffer after this step
FragmentSlots == SubSeq(loop'.responsePayload, 2, loop'.numOfResponsePackets + 1)

\* C8: a single-fragment response is returned immediately after its DATA
\* packet; a multi-fragment response is returned only once every slot
\* 1..totalFragments is filled, and the value returned is the concatenation of
\* the stored payloads of fragments 1..totalFragments in sequence order.
GetCompletion ==
    [][ GetReadsData =>
          /\ loop'.numOfResponsePackets = 1 =>
                /\ pc' = "returned"
                /\ out'.value = ResponseSlice(loop'.responsePacket.payload)
          /\ loop'.numOfResponsePackets > 1 =>
                /\ pc' = "returned" <=> \A i \in 1..Len(FragmentSlots) : FragmentSlots[i] # <<>>
                /\ pc' = "returned" => out'.value = Concat(FragmentSlots) ]_vars


(***************************************************************************)
(* Claims about the POST receive loop (under SpecPost)                     *)
(***************************************************************************)
\* C9: the POST receive loop ends only when a DATA packet has actually been
\* received from the socket, and the value returned is that packet's payload
\* (the payload field of the 1024-byte buffer the datagram was read into);
\* an ACK, a NAK or a read timeout/error never ends the loop, under every
\* interleaving with the retransmission task.
PostCompletion ==
    (op = "UDPPost" /\ pc = "returned") =>
        /\ loop.dgram.ok
        /\ loop.dgram.bytes # <<>> /\ loop.dgram.bytes[1] = 0
        /\ out.value = SubSeq(ReadInto(ReadSize, loop.dgram.bytes), HeaderLen + 1, ReadSize)

(***************************************************************************)
(* Claims about the life of the request call (under SpecGet)               *)
(***************************************************************************)
\* the sequence numbers of the DATA packets stored so far, in arrival order
\* (acks without the five zero entries make gave it)
Arrivals == SubSeq(loop.acks, 6, Len(loop.acks))

\* how many NAKs the gap branch has issued for sequence number m
NakCount(m) == Cardinality({ i \in 6..Len(loop.naks) : loop.naks[i] = U32(m) })

\* the arrivals that came after the first DATA packet with a sequence number
\* above m, the one whose gap branch issued the NAK for m
ArrivalsAfterNak(m) ==
    LET above == { i \in 1..Len(Arrivals) : U32Less(U32(m), Arrivals[i]) }
    IN  IF above = {} THEN 0
        ELSE Len(Arrivals) - (CHOOSE i \in above : \A j \in above : i <= j)

\* fragment m of the response is wanted and its slot is still empty
StillMissing(m) ==
    /\ m <= loop.numOfResponsePackets
    /\ Len(loop.responsePayload) > m
    /\ loop.responsePayload[m + 1] = <<>>

\* C16: when a NAK has been issued for a missing fragment m and DATA packets
\* (duplicates included) have kept arriving since while m is still missing,
\* the receiver has issued a NAK for m again by the end of the run.
GetNakReissued ==
    \A m \in 1..MaxSeq :
        ( /\ op = "UDPGet" /\ pc = "get_read"
          /\ loop.reads = MaxReads
          /\ NakCount(m) >= 1
          /\ StillMissing(m)
          /\ ArrivalsAfterNak(m) >= 1 )
        => NakCount(m) >= 2

\* C17: while the receive loop of UDPGet reads, no read deadline has run out:
\* a read can still wait for, and receive, a datagram that arrives later.
GetReadsUnbounded ==
    (op = "UDPGet" /\ pc = "get_read") => hs.deadline # "expired"

\* C13: once UDPGet has returned, the goroutine is not waiting in its receive
\* on packetChan (nothing sends on the channel after the return, so a
\* goroutine waiting there waits for ever), and it writes nothing more.
GetTaskEnds ==
    [][ /\ (op = "UDPGet" /\ pc' = "returned") => task'.state # "receiving"
        /\ (op = "UDPGet" /\ pc = "returned") => wrote' = <<>> ]_vars

\* C20: whatever sequence numbers the incoming packets carry, UDPGet and its
\* goroutine never index packets or responsePayload out of range.
GetNeverPanics == op = "UDPGet" => pc # "panic"

(***************************************************************************)
(* Claims about the receive loop and the goroutine of UDPPost (under       *)
(* SpecPost)                                                               *)
(***************************************************************************)
\* C11: what the receive loop tests after its read is the outcome of that
\* read: err is nil exactly when the read returned a datagram, whatever the
\* goroutine has done in between.
PostLoopDecidesOnOwnRead ==
    (op = "UDPPost" /\ pc = "post_check") => (task.err = "nil" <=> loop.dgram.ok)

\* C12: handing an ACK/NAK to the goroutine never blocks the receive loop and
\* puts the packet on the channel at most once.
PostHandOffOnce ==
    [][ op = "UDPPost" =>
            /\ Len(task'.chan) <= Len(task.chan) + 1
            /\ pc' # "post_send" ]_vars

\* C14: when the goroutine has processed an ACK notification for sequence
\* number N, no packet with sequence number N is left in its nakList,
\* however many NAKs for N came before.
PostAckClearsResendSet ==
    [][ ( /\ op = "UDPPost" /\ task.state = "receiving"
          /\ task.chan # <<>> /\ task'.chan = Tail(task.chan)
          /\ Head(task.chan).pType = <<1>> )
        => \A i \in 1..Len(task'.nakList) :
               task'.nakList[i].seqNo # Head(task.chan).seqNo ]_vars

\* the sequence numbers (as header bytes) of the packets in packetList
SeqNos(packetList) == { packetList[i].seqNo : i \in 1..Len(packetList) }

\* the request fragments whose sequence number is in the set seqNos, in order
FragmentsOf(seqNos) == SelectSeq(RequestPackets, LAMBDA b : SubSeq(b, 2, 5) \in seqNos)

\* C15: ackPackets starts as all request fragments; when the loop has read an
\* ACK for N, N is not in ackPackets afterwards; when it has read a NAK for a
\* request fragment N, N is in ackPackets afterwards; and when its read timed
\* out or failed it re-sends exactly the fragments in ackPackets, with their
\* original bytes, and goes on reading.
PostTimeoutRecovery ==
    [][ op = "UDPPost" =>
          /\ (pc = "post_write" /\ pc' = "post_read")
                => FragmentsOf(SeqNos(loop.ackPackets)) = RequestPackets
          /\ (pc = "post_check" /\ pc' \in {"post_read", "post_send", "returned"})
                => LET p == loop.responsePacket
                   IN  /\ (loop.dgram.ok /\ p.pType = <<1>>)
                             => p.seqNo \notin SeqNos(loop'.ackPackets)
                       /\ (loop.dgram.ok /\ p.pType = <<4>>
                               /\ FragmentsOf({p.seqNo}) # <<>>)
                             => p.seqNo \in SeqNos(loop'.ackPackets)
                       /\ ~loop.dgram.ok
                             => /\ wrote' = FragmentsOf(SeqNos(loop.ackPackets))
                                /\ pc' = "post_read" ]_vars
====
